---- MODULE Spec2Model ----
(***************************************************************************)
(* A model of pyllow: the request orchestrator (Pyllow.run and the methods *)
(* it calls) and the token manager (Token).                                *)
(*                                                                         *)
(* Python values whose type the code inspects (isinstance, truthiness,     *)
(* f-string formatting) are tagged records [t |-> <type>, v |-> <value>].  *)
(* Text (bodies, tokens, file contents, method names) is a TLA+ string.    *)
(* The HTTP transport, the token endpoint and the file system are the      *)
(* environment: every answer they can give is a nondeterministic choice.   *)
(* time.sleep changes no state and is left out.                            *)
(***************************************************************************)
EXTENDS Integers, Sequences, FiniteSets, TLC

(***************************************************************************)
(* Bounds of the model.                                                    *)
(***************************************************************************)
MaxLoops == 2
MaxPayloads == 2
MaxPathLen == 2
MaxRuns == 2

(***************************************************************************)
(* Python values.                                                          *)
(***************************************************************************)
PyNone == [t |-> "NoneType"]
PyStr(s) == [t |-> "str", v |-> s]
PyInt(n) == [t |-> "int", v |-> n]
PyList(s) == [t |-> "list", v |-> s]
PyDict(f) == [t |-> "dict", v |-> f]

\* {} : the dict with no key.
EmptyDict == PyDict([k \in {} |-> PyNone])

\* bool(x) for the values the code tests: None, "" and [] are false.
Truthy(x) ==
    CASE x.t = "NoneType" -> FALSE
      [] x.t = "str" -> x.v # ""
      [] x.t = "list" -> x.v # <<>>
      [] x.t = "dict" -> DOMAIN x.v # {}
      [] OTHER -> TRUE

\* What an f-string makes of a value: str(x).
Format(x) ==
    CASE x.t = "str" -> x.v
      [] x.t = "NoneType" -> "None"
      [] OTHER -> "?"

\* f"Bearer {access_token}"
Bearer(access_token) == "Bearer " \o Format(access_token)

\* str.upper on the letters that occur in HTTP method names.
UpperChar(c) ==
    CASE c = "p" -> "P" [] c = "o" -> "O" [] c = "s" -> "S" [] c = "t" -> "T"
      [] c = "g" -> "G" [] c = "e" -> "E" [] c = "u" -> "U"
      [] OTHER -> c

RECURSIVE Upper(_)
Upper(s) ==
    IF s = "" THEN ""
    ELSE UpperChar(SubSeq(s, 1, 1)) \o Upper(SubSeq(s, 2, Len(s)))

IsPostBroken(m) == m = "POST"
\* self.method.upper() == "POST"
IsPost(m) == Upper(m) = "POST"

\* message in content : substring test.
Contains(message, content) ==
    \E i \in 1..(Len(content) - Len(message) + 1) :
        SubSeq(content, i, i + Len(message) - 1) = message

\* dict.get(key) : the value, or None when the key is absent.
DictGet(d, key) == IF key \in DOMAIN d THEN d[key] ELSE PyNone

(***************************************************************************)
(* Token._extract_value                                                    *)
(***************************************************************************)
RECURSIVE ExtractValueNoTypeCheck(_, _)
ExtractValueNoTypeCheck(data, path) ==
    IF path = <<>>
    THEN data
    ELSE IF data.t = "dict"
         THEN ExtractValueNoTypeCheck(DictGet(data.v, Head(path)), Tail(path))
         ELSE PyNone

RECURSIVE ExtractValue(_, _)
ExtractValue(data, path) ==
    IF path = <<>>
    THEN IF data.t = "str" THEN data ELSE PyNone
    ELSE IF data.t = "dict"
         THEN ExtractValue(DictGet(data.v, Head(path)), Tail(path))
         ELSE PyNone

(***************************************************************************)
(* The environment's answers.                                              *)
(***************************************************************************)
\* requests.Response of the target: status_code and text.
Response(status_code, text) == [status_code |-> status_code, text |-> text]

StatusCodes == {200, 401}
Bodies == {"ok", "fail"}
Responses == {Response(c, b) : c \in StatusCodes, b \in Bodies}

\* What make_request gives: a response, or requests.RequestException raised.
TransportError == [raised |-> TRUE]
Answer(r) == [raised |-> FALSE, response |-> r]
Answers == {TransportError} \cup {Answer(r) : r \in Responses}

\* JSON documents the token endpoint may answer with.
TokenDocuments ==
    { PyDict([access_token |-> PyStr("tokA"), refresh_token |-> PyStr("refB")]),
      PyDict([access_token |-> PyStr("tokB")]),
      PyDict([access_token |-> PyStr(""), refresh_token |-> PyStr("")]),
      PyDict([refresh_token |-> PyInt(7)]),
      PyList(<<>>) }

\* The token endpoint's response: status_code, and what response.json() does
\* (returns a document, or raises on a body that is not JSON).
TokenResponse(status_code, valid, doc) ==
    [status_code |-> status_code, json_valid |-> valid, json |-> doc]

TokenAnswers ==
    {TransportError}
    \cup {Answer(TokenResponse(500, FALSE, PyNone))}
    \cup {Answer(TokenResponse(200, FALSE, PyNone))}
    \cup {Answer(TokenResponse(200, TRUE, d)) : d \in TokenDocuments}

(***************************************************************************)
(* Token                                                                   *)
(***************************************************************************)
NoToken == [present |-> FALSE]

\* Token.__init__ : access_token starts empty, the paths take their defaults.
NewToken(refresh_token) ==
    [present |-> TRUE,
     refresh_token |-> PyStr(refresh_token),
     access_token |-> PyStr(""),
     access_token_path |-> <<"access_token">>,
     refresh_token_path |-> <<"refresh_token">>]

\* The body of the refresh request.
RefreshPayload(tok) ==
    PyDict([grant_type |-> PyStr("refresh_token"),
            refresh_token |-> tok.refresh_token,
            client_id |-> PyStr("id"),
            client_secret |-> PyStr("secret")])

\* Variants of refresh_access_token: `on_failure` is the token a failed
\* refresh leaves, `keep_access` keeps the old access_token when none is
\* extracted, `always_refresh_token` stores whatever is extracted as the
\* refresh_token, `lenient` returns instead of raising.
RefreshVariant(tok, answer, on_failure, keep_access, always_refresh_token,
               lenient) ==
    LET failed == [raised |-> ~lenient, token |-> on_failure,
                   returned |-> PyNone]
    IN IF answer.raised THEN failed
       ELSE IF answer.response.status_code # 200 THEN failed
       ELSE IF ~answer.response.json_valid THEN failed
       ELSE LET access == ExtractValue(answer.response.json,
                                       tok.access_token_path)
                refresh == ExtractValue(answer.response.json,
                                        tok.refresh_token_path)
                stored == IF keep_access /\ ~Truthy(access)
                          THEN tok.access_token ELSE access
            IN [raised |-> FALSE,
                token |-> [tok EXCEPT
                    !.access_token = stored,
                    !.refresh_token =
                        IF always_refresh_token \/ Truthy(refresh)
                        THEN refresh ELSE @],
                returned |-> access]

RefreshClearsOnFailure(tok, answer) ==
    RefreshVariant(tok, answer, [tok EXCEPT !.access_token = PyStr("")],
                   FALSE, FALSE, FALSE)
RefreshAlwaysStoresRefreshToken(tok, answer) ==
    RefreshVariant(tok, answer, tok, FALSE, TRUE, FALSE)
RefreshKeepsAccessToken(tok, answer) ==
    RefreshVariant(tok, answer, tok, TRUE, FALSE, FALSE)
RefreshNeverRaises(tok, answer) ==
    RefreshVariant(tok, answer, tok, FALSE, FALSE, TRUE)

\* Token.refresh_access_token, given the endpoint's answer: whether it raises,
\* the token afterwards, and the value returned (None when it raises).
RefreshAccessToken(tok, answer) ==
    IF answer.raised
    THEN [raised |-> TRUE, token |-> tok, returned |-> PyNone]
    ELSE IF answer.response.status_code = 200
         THEN IF ~answer.response.json_valid
              THEN [raised |-> TRUE, token |-> tok, returned |-> PyNone]
              ELSE LET token_data == answer.response.json
                       access == ExtractValue(token_data, tok.access_token_path)
                       new_refresh_token ==
                           ExtractValue(token_data, tok.refresh_token_path)
                       after == [tok EXCEPT
                           !.access_token = access,
                           !.refresh_token =
                               IF Truthy(new_refresh_token)
                               THEN new_refresh_token ELSE @]
                   IN [raised |-> FALSE, token |-> after,
                       returned |-> after.access_token]
         ELSE [raised |-> TRUE, token |-> tok, returned |-> PyNone]

(***************************************************************************)
(* Condition matching: the body of the loop of Pyllow._process_response.   *)
(* A condition is a dict: a function whose domain is the keys it has.      *)
(***************************************************************************)
Range(s) == {s[i] : i \in DOMAIN s}

MatchesEither(condition, response) ==
    LET has_codes == "status_codes" \in DOMAIN condition
                     /\ condition["status_codes"] # <<>>
        has_messages == "messages" \in DOMAIN condition
                        /\ condition["messages"] # <<>>
        code_in == response.status_code \in Range(condition["status_codes"])
        message_in == \E message \in Range(condition["messages"]) :
                         Contains(message, response.text)
    IN IF has_codes /\ has_messages THEN code_in \/ message_in
       ELSE IF has_codes THEN code_in
       ELSE IF has_messages THEN message_in
       ELSE TRUE

Matches(condition, response) ==
    LET codes_ok ==
            IF "status_codes" \in DOMAIN condition
               /\ condition["status_codes"] # <<>>
            THEN response.status_code \in Range(condition["status_codes"])
            ELSE TRUE
        messages_ok ==
            IF "messages" \in DOMAIN condition /\ condition["messages"] # <<>>
            THEN \E message \in Range(condition["messages"]) :
                     Contains(message, response.text)
            ELSE TRUE
    IN codes_ok /\ messages_ok

ProcessConditionsDedup(crs, response) ==
    [i \in DOMAIN crs |->
        IF Matches(crs[i].condition, response)
           /\ response.text \notin Range(crs[i].results)
        THEN [crs[i] EXCEPT !.results = Append(@, response.text)]
        ELSE crs[i]]
\* self.condition_results after _process_response(response).
ProcessConditions(crs, response) ==
    [i \in DOMAIN crs |->
        IF Matches(crs[i].condition, response)
        THEN [crs[i] EXCEPT !.results = Append(@, response.text)]
        ELSE crs[i]]

\* self.results after _process_response(response).
ProcessResults(save, res, response) ==
    IF save THEN Append(res, response.text) ELSE res

(***************************************************************************)
(* Pyllow.__init__                                                         *)
(***************************************************************************)
\* payloads or [{}]
EffectivePayloads(payloads_arg) ==
    IF Truthy(payloads_arg) THEN payloads_arg.v ELSE <<EmptyDict>>

TotalRequests(method_arg, payloads_eff, loops_arg) ==
    IF IsPost(method_arg) THEN Len(payloads_eff) * loops_arg ELSE loops_arg

InitialConditionResults(conditions_arg) ==
    [i \in DOMAIN conditions_arg |->
        [condition |-> conditions_arg[i], results |-> <<>>]]

(***************************************************************************)
(* Files.  A file is absent, or present with its text.                     *)
(***************************************************************************)
Absent == [exists |-> FALSE, content |-> ""]
Present(text) == [exists |-> TRUE, content |-> text]

\* What the loop `for result in results: file.write(result + "\n")` writes.
RECURSIVE Lines(_)
Lines(bodies) ==
    IF bodies = <<>> THEN "" ELSE Head(bodies) \o "\n" \o Lines(Tail(bodies))

WriteModeTruncate(append, file) == "w"
\* mode = "a" if self.append_logs and os.path.exists(path) else "w"
WriteMode(append, file) == IF append /\ file.exists THEN "a" ELSE "w"

\* open(path, mode) followed by the writes.  outcome.kind is "ok", "open_error"
\* (open raises, nothing is touched) or "write_error" (the write raises after
\* outcome.done whole bodies).
WriteFile(file, mode, bodies, outcome) ==
    LET base == IF mode = "a" THEN file.content ELSE ""
    IN CASE outcome.kind = "open_error" -> file
         [] outcome.kind = "write_error" ->
                Present(base \o Lines(SubSeq(bodies, 1, outcome.done)))
         [] OTHER -> Present(base \o Lines(bodies))

WriteOutcomes(bodies) ==
    {[kind |-> "ok", done |-> Len(bodies)], [kind |-> "open_error", done |-> 0]}
    \cup {[kind |-> "write_error", done |-> k] : k \in 0..(Len(bodies) - 1)}

(***************************************************************************)
(* State.                                                                  *)
(*   args                the arguments Pyllow was constructed with         *)
(*   headers .. condition_results   the fields of the Pyllow object that   *)
(*                       __init__ derives or run() changes                 *)
(*   token               the Token object (NoToken when none was given)    *)
(*   pc, loop, idx, cidx where run() is: the loop counter, the index of    *)
(*                       the payload, the index of the condition being     *)
(*                       saved                                             *)
(*   fs                  the files, by path                                *)
(*   dispatched          history: the payloads _make_request was called    *)
(*                       with, in order                                    *)
(*   trace               history: what the dispatch in progress (or the    *)
(*                       last one) sent, received and processed            *)
(*   written             history: the file writes attempted                *)
(*   history             history: the calls of run() on this object, the   *)
(*                       calls of refresh_access_token in the current      *)
(*                       run(), and whether one of them has returned       *)
(*   fn                  the call under test of a pure function            *)
(***************************************************************************)
VARIABLES args, headers, payloads, token, results, total_requests,
          completed_requests, condition_results, pc, loop, idx, cidx, fs,
          dispatched, trace, written, history, fn

vars == <<args, headers, payloads, token, results, total_requests,
          completed_requests, condition_results, pc, loop, idx, cidx, fs,
          dispatched, trace, written, history, fn>>

objectVars == <<args, headers, payloads, token, results, total_requests,
                completed_requests, condition_results>>
runVars == <<pc, loop, idx, cidx, fs, dispatched, trace, written, history>>

EmptyTrace == [sent |-> <<>>, answers |-> <<>>, refresh |-> "none",
               token_answers |-> <<>>, returned |-> <<>>, processed |-> <<>>]
NoHistory == [runs |-> 0, refresh_calls |-> 0, refreshed |-> FALSE]
NoCall == [op |-> "none"]

(***************************************************************************)
(* Configurations.                                                         *)
(***************************************************************************)
Paths == {"output.txt", "cond.txt"}
Methods == {"POST", "post", "Post", "GET"}
CallerHeaders == [Accept |-> "json"]

\* {"x": i}
Payload(i) == PyDict([x |-> PyInt(i)])
PayloadArgs ==
    {PyNone} \cup {PyList([i \in 1..n |-> Payload(i)]) : n \in 0..MaxPayloads}

Config(method, payloads_arg, loops_arg, with_token, save, conditions, append) ==
    [method |-> method, headers |-> CallerHeaders, payloads |-> payloads_arg,
     token |-> with_token, save_output |-> save, output_file |-> "output.txt",
     conditions |-> conditions, loops |-> loops_arg, append_logs |-> append]

\* Every method, payload list and loop count, with and without a token.
LoopConfigs ==
    {Config(m, p, l, t, FALSE, <<>>, FALSE) :
        m \in Methods, p \in PayloadArgs, l \in 0..MaxLoops, t \in BOOLEAN}

\* A token, every response collected, and a condition on the status 401.
TokenConfigs ==
    {Config("POST", PyNone, l, TRUE, TRUE,
            <<[status_codes |-> <<401>>]>>, FALSE) : l \in {1, 2}}

\* The condition lists of the persistence configurations.
ConditionLists ==
    { <<>>,
      <<[status_codes |-> <<200>>, messages |-> <<"ok">>,
         output_file |-> "cond.txt"]>>,
      <<[output_file |-> "output.txt"]>>,
      <<[status_codes |-> <<401>>, output_file |-> "cond.txt"],
        [messages |-> <<"ok", "fail">>, status_codes |-> <<>>,
         output_file |-> "cond.txt"]>>,
      <<[messages |-> <<"ok">>], [messages |-> <<>>, output_file |-> ""]>>,
      <<[status_codes |-> <<401>>, output_file |-> "cond.txt"],
        [messages |-> <<"k">>, output_file |-> "output.txt"]>>,
      <<[status_codes |-> <<401>>, output_file |-> "cond.txt"],
        [messages |-> <<"ok">>, output_file |-> "cond.txt"]>> }

\* Two dispatches, every output setting and condition list.
SaveConfigs ==
    {Config("GET", PyNone, 2, FALSE, s, c, a) :
        s \in BOOLEAN, c \in ConditionLists, a \in BOOLEAN}

\* A token, and headers of the caller that already hold an Authorization.
AuthorizedHeaders == [Accept |-> "json", Authorization |-> "Basic abc"]
AuthConfigs ==
    {[Config("GET", PyNone, 2, TRUE, FALSE, <<>>, FALSE)
         EXCEPT !.headers = AuthorizedHeaders]}

Configs == LoopConfigs \cup TokenConfigs \cup SaveConfigs \cup AuthConfigs

\* The files before the run: each path absent, or present with earlier text.
FileSystems == [Paths -> {Absent, Present("old\n")}]

(***************************************************************************)
(* Init: the state after Pyllow.__init__(args).                            *)
(***************************************************************************)
Constructed(a, files) ==
    /\ args = a
    /\ headers = a.headers
    /\ payloads = EffectivePayloads(a.payloads)
    /\ token = IF a.token THEN NewToken("ref0") ELSE NoToken
    /\ results = <<>>
    /\ total_requests =
           TotalRequests(a.method, EffectivePayloads(a.payloads), a.loops)
    /\ completed_requests = 0
    /\ condition_results = InitialConditionResults(a.conditions)
    /\ pc = "constructed"
    /\ loop = 0
    /\ idx = 0
    /\ cidx = 0
    /\ fs = files
    /\ dispatched = <<>>
    /\ trace = EmptyTrace
    /\ written = <<>>
    /\ history = NoHistory

NoFiles == [p \in Paths |-> Absent]

Init ==
    /\ \E a \in Configs : \E files \in FileSystems :
          /\ (a \in SaveConfigs \/ files = NoFiles)
          /\ Constructed(a, files)
    /\ fn = NoCall

(***************************************************************************)
(* Pyllow.run: control.                                                    *)
(*   pc = "constructed"  run() has not been called                         *)
(*        "request"      about to call _make_request (loop, idx)           *)
(*        "refresh"      in _make_request, first answer was a 401          *)
(*        "retry"        in _make_request, the token was refreshed         *)
(*        "save"         about to call _save_results                       *)
(*        "save_cond"    in _save_condition_results, at condition cidx     *)
(*        "done"         run() returned                                    *)
(*        "raised"       an exception left run()                           *)
(***************************************************************************)
\* self.headers["Authorization"] = value
SetAuthorization(h, value) ==
    [k \in DOMAIN h \cup {"Authorization"} |->
        IF k = "Authorization" THEN value ELSE h[k]]

\* One call of make_request, as the transport sees it.
Request(method, url, hdrs, data) ==
    [method |-> method, url |-> url, headers |-> hdrs, data |-> data]

FirstHeadersAnyToken(h, tok) ==
    IF tok.present THEN SetAuthorization(h, Bearer(tok.access_token)) ELSE h
\* The headers of the first send: the Authorization header is set when there
\* is a token whose access_token is not empty.
FirstHeaders(h, tok) ==
    IF tok.present /\ Truthy(tok.access_token)
    THEN SetAuthorization(h, Bearer(tok.access_token))
    ELSE h

RetryHeadersStale(h, tok) == h
\* The headers of the resend, after the refresh.
RetryHeaders(h, tok) == SetAuthorization(h, Bearer(tok.access_token))

\* data=payload if self.method.upper() == "POST" else None
RequestData(method, payload) == IF IsPost(method) THEN payload ELSE PyNone

NeedsRefreshAnyStatus(response, tok) == tok.present
\* response.status_code == 401 and self.token
NeedsRefresh(response, tok) == response.status_code = 401 /\ tok.present

\* _save_condition_results runs its loop body only when there are conditions.
AfterSave(crs) == IF crs = <<>> THEN "done" ELSE "save_cond"

AfterLoopsAlwaysSave(save, crs) == "save"
\* if self.save_output: self._save_results()
AfterLoops(save, crs) == IF save THEN "save" ELSE AfterSave(crs)

NextDispatchPayloadMajor(a, pl, lp, ix, crs) ==
    IF lp < a.loops
    THEN [pc |-> "request", loop |-> lp + 1, idx |-> ix]
    ELSE IF IsPost(a.method) /\ ix < Len(pl)
         THEN [pc |-> "request", loop |-> 1, idx |-> ix + 1]
         ELSE [pc |-> AfterLoops(a.save_output, crs), loop |-> lp, idx |-> 0]
\* Where run() continues after the dispatch (lp, ix): the next payload, the
\* next loop, or the persistence.
NextDispatch(a, pl, lp, ix, crs) ==
    IF IsPost(a.method) /\ ix < Len(pl)
    THEN [pc |-> "request", loop |-> lp, idx |-> ix + 1]
    ELSE IF lp < a.loops
         THEN [pc |-> "request", loop |-> lp + 1, idx |-> 1]
         ELSE [pc |-> AfterLoops(a.save_output, crs), loop |-> lp, idx |-> 0]

\* _log_progress divides by total_requests: ZeroDivisionError when it is 0.
LogProgressRaises(total) == total = 0

RequestErrorPropagates(next) == "raised"
\* except Exception in _make_request: the error is logged, run() goes on.
AfterRequestError(next) == next

WriteErrorPropagates(outcome, next) ==
    IF outcome.kind = "ok" THEN next ELSE "raised"
\* except IOError around each open/write: the error is logged, run() goes on.
AfterWrite(outcome, next) == next

ShouldWriteEmpty(cr) ==
    /\ "output_file" \in DOMAIN cr.condition
    /\ cr.condition["output_file"] # ""
\* if output_file and results
ShouldWrite(cr) ==
    /\ "output_file" \in DOMAIN cr.condition
    /\ cr.condition["output_file"] # ""
    /\ cr.results # <<>>

AccountProcessedOnly(swallowed) ==
    /\ completed_requests' = completed_requests + (IF swallowed THEN 0 ELSE 1)
    /\ LET n == NextDispatch(args, payloads, loop, idx, condition_results)
       IN /\ pc' = n.pc
          /\ loop' = n.loop
          /\ idx' = n.idx
          /\ cidx' = IF n.pc = "save_cond" THEN 1 ELSE 0
\* run(), from the return of _make_request to the next call or to the
\* persistence: completed_requests += 1, _log_progress().  `swallowed` tells
\* that _make_request returned through its except clause.
Account(swallowed) ==
    /\ completed_requests' = completed_requests + 1
    /\ LET n == NextDispatch(args, payloads, loop, idx, condition_results)
           to == IF LogProgressRaises(total_requests) THEN "raised"
                 ELSE IF swallowed THEN AfterRequestError(n.pc) ELSE n.pc
       IN /\ pc' = to
          /\ loop' = IF to = "raised" THEN loop ELSE n.loop
          /\ idx' = IF to = "raised" THEN idx ELSE n.idx
          /\ cidx' = IF to = "save_cond" THEN 1 ELSE 0

\* _process_response(response)
Process(response) ==
    /\ results' = ProcessResults(args.save_output, results, response)
    /\ condition_results' = ProcessConditions(condition_results, response)

\* run() is called.
RunStart ==
    /\ pc = "constructed"
    /\ IF args.loops >= 1
       THEN pc' = "request" /\ loop' = 1 /\ idx' = 1 /\ cidx' = 0
       ELSE /\ pc' = AfterLoops(args.save_output, condition_results)
            /\ loop' = 0 /\ idx' = 0
            /\ cidx' = IF pc' = "save_cond" THEN 1 ELSE 0
    /\ history' = [history EXCEPT !.runs = @ + 1]
    /\ UNCHANGED <<objectVars, fs, dispatched, trace, written, fn>>

\* _make_request(payload) up to the first answer, and on to the end of the
\* dispatch unless the answer calls for a refresh.
SendFirst ==
    /\ pc = "request"
    /\ LET payload == IF IsPost(args.method) THEN payloads[idx] ELSE EmptyDict
           hdrs == FirstHeaders(headers, token)
           send == Request(args.method, "url", hdrs,
                           RequestData(args.method, payload))
       IN /\ headers' = hdrs
          /\ dispatched' = Append(dispatched, payload)
          /\ \E answer \in Answers :
                LET t == [EmptyTrace EXCEPT !.sent = <<send>>,
                                            !.answers = <<answer>>]
                IN IF answer.raised
                   THEN /\ trace' = t
                        /\ Account(TRUE)
                        /\ UNCHANGED <<results, condition_results>>
                   ELSE IF NeedsRefresh(answer.response, token)
                        THEN /\ trace' = t
                             /\ pc' = "refresh"
                             /\ UNCHANGED <<loop, idx, cidx, completed_requests,
                                            results, condition_results>>
                        ELSE /\ trace' = [t EXCEPT
                                            !.processed = <<answer.response>>]
                             /\ Process(answer.response)
                             /\ Account(FALSE)
    /\ UNCHANGED <<args, payloads, token, total_requests, fs, written,
                   history, fn>>

\* self.token.refresh_access_token(self.headers), and the header update.
Refresh ==
    /\ pc = "refresh"
    /\ \E answer \in TokenAnswers :
          LET r == RefreshAccessToken(token, answer)
              send == Request("POST", "token_endpoint", headers,
                              RefreshPayload(token))
          IN /\ token' = r.token
             /\ history' = [history EXCEPT
                               !.refresh_calls = @ + 1,
                               !.refreshed = @ \/ ~r.raised]
             /\ IF r.raised
                THEN /\ trace' = [trace EXCEPT
                                     !.sent = Append(@, send),
                                     !.token_answers = Append(@, answer),
                                     !.refresh = "raised"]
                     /\ Account(TRUE)
                     /\ UNCHANGED headers
                ELSE /\ trace' = [trace EXCEPT
                                     !.sent = Append(@, send),
                                     !.token_answers = Append(@, answer),
                                     !.returned = Append(@, r.returned),
                                     !.refresh = "ok"]
                     /\ headers' = RetryHeaders(headers, r.token)
                     /\ pc' = "retry"
                     /\ UNCHANGED <<loop, idx, cidx, completed_requests>>
    /\ UNCHANGED <<args, payloads, results, total_requests, condition_results,
                   fs, dispatched, written, fn>>

\* The resend, and the processing of its answer.
Retry ==
    /\ pc = "retry"
    /\ LET payload == dispatched[Len(dispatched)]
           send == Request(args.method, "url", headers,
                           RequestData(args.method, payload))
       IN \E answer \in Answers :
             /\ trace' = [trace EXCEPT
                   !.sent = Append(@, send),
                   !.answers = Append(@, answer),
                   !.processed = IF answer.raised THEN @
                                 ELSE Append(@, answer.response)]
             /\ IF answer.raised
                THEN Account(TRUE) /\ UNCHANGED <<results, condition_results>>
                ELSE Process(answer.response) /\ Account(FALSE)
    /\ UNCHANGED <<args, headers, payloads, token, total_requests, fs,
                   dispatched, written, history, fn>>

\* _save_results()
SaveResults ==
    /\ pc = "save"
    /\ LET path == args.output_file
           mode == WriteMode(args.append_logs, fs[path])
       IN \E outcome \in WriteOutcomes(results) :
             /\ fs' = [fs EXCEPT ![path] = WriteFile(@, mode, results, outcome)]
             /\ written' = Append(written,
                   [path |-> path, mode |-> mode, by |-> 0,
                    kind |-> outcome.kind])
             /\ pc' = AfterWrite(outcome, AfterSave(condition_results))
    /\ cidx' = IF pc' = "save_cond" THEN 1 ELSE 0
    /\ UNCHANGED <<objectVars, loop, idx, dispatched, trace, history, fn>>

\* One turn of the loop of _save_condition_results, for condition cidx.
SaveCondition ==
    /\ pc = "save_cond"
    /\ LET cr == condition_results[cidx]
           next == IF cidx < Len(condition_results) THEN "save_cond" ELSE "done"
       IN IF ShouldWrite(cr)
          THEN LET path == cr.condition["output_file"]
                   mode == WriteMode(args.append_logs, fs[path])
               IN \E outcome \in WriteOutcomes(cr.results) :
                     /\ fs' = [fs EXCEPT
                                 ![path] = WriteFile(@, mode, cr.results, outcome)]
                     /\ written' = Append(written,
                           [path |-> path, mode |-> mode, by |-> cidx,
                            kind |-> outcome.kind])
                     /\ pc' = AfterWrite(outcome, next)
          ELSE pc' = next /\ UNCHANGED <<fs, written>>
    /\ cidx' = IF pc' = "save_cond" THEN cidx + 1 ELSE 0
    /\ UNCHANGED <<objectVars, loop, idx, dispatched, trace, history, fn>>

Next ==
    \/ RunStart
    \/ SendFirst
    \/ Refresh
    \/ Retry
    \/ SaveResults
    \/ SaveCondition

Spec == Init /\ [][Next]_vars

\* run() is one sequential thread: whenever it can take a step, it does.
\* The configurations with a token are taken with no payloads given; those
\* without a token are all taken.
InitFair == Init /\ (args.token => args.payloads = PyNone)
FairSpec == InitFair /\ [][Next]_vars /\ WF_vars(Next)

(***************************************************************************)
(* run() called again on the same object.  __init__ is the only place that *)
(* sets results, completed_requests and condition_results: run() starts    *)
(* from the object as the run before left it.  The histories of the run    *)
(* start afresh.                                                           *)
(***************************************************************************)
RunAgain ==
    /\ pc = "done"
    /\ history.runs < MaxRuns
    /\ IF args.loops >= 1
       THEN pc' = "request" /\ loop' = 1 /\ idx' = 1 /\ cidx' = 0
       ELSE /\ pc' = AfterLoops(args.save_output, condition_results)
            /\ loop' = 0 /\ idx' = 0
            /\ cidx' = IF pc' = "save_cond" THEN 1 ELSE 0
    /\ history' = [history EXCEPT !.runs = @ + 1, !.refresh_calls = 0]
    /\ dispatched' = <<>>
    /\ trace' = EmptyTrace
    /\ written' = <<>>
    /\ UNCHANGED <<objectVars, fs, fn>>

\* One dispatch per run(), a token, every response collected, a condition
\* on the status 401.
RerunConfigs ==
    {Config("GET", PyNone, 1, TRUE, TRUE, <<[status_codes |-> <<401>>]>>, a) :
        a \in BOOLEAN}

InitRerun ==
    /\ \E a \in RerunConfigs : Constructed(a, NoFiles)
    /\ fn = NoCall

NextRerun == Next \/ RunAgain

SpecRerun == InitRerun /\ [][NextRerun]_vars

(***************************************************************************)
(* The pure functions, called on their own: Token._extract_value on a JSON *)
(* document and a key path, and the condition loop of _process_response on *)
(* one condition and one response, called twice.                           *)
(***************************************************************************)
Keys == {"a", "b"}
PathKeys == {"a", "b", "c"}
Leaves == {PyStr("tok123"), PyStr(""), PyInt(1), PyNone, PyList(<<>>)}
DictsOver(values) == UNION {{PyDict(f) : f \in [D -> values]} : D \in SUBSET Keys}
Documents == Leaves \cup DictsOver(Leaves) \cup DictsOver(Leaves \cup DictsOver(Leaves))
KeyPaths == UNION {[1..n -> PathKeys] : n \in 0..MaxPathLen}

CodeLists == {<<>>, <<200>>, <<401>>, <<200, 401>>}
MessageLists == {<<>>, <<"ok">>, <<"ok", "fail">>, <<"">>, <<"k", "x">>}
MatchConditions ==
    {[status_codes |-> c, messages |-> m] : c \in CodeLists, m \in MessageLists}
    \cup {[status_codes |-> c] : c \in CodeLists}
    \cup {[messages |-> m] : m \in MessageLists}
    \cup {[output_file |-> "cond.txt"]}
MatchResponses ==
    {Response(c, b) : c \in {200, 401, 500},
                      b \in {"", "ok", "fail", "not ok!", "o k"}}

InitPure ==
    /\ Constructed(Config("GET", PyNone, 1, FALSE, FALSE, <<>>, FALSE), NoFiles)
    /\ \/ \E d \in Documents : \E p \in KeyPaths :
             fn = [op |-> "extract", data |-> d, path |-> p, calls |-> 0,
                   out |-> PyNone]
       \/ \E c \in MatchConditions : \E r \in MatchResponses :
             fn = [op |-> "match", response |-> r, calls |-> 0,
                   crs |-> InitialConditionResults(<<c>>)]

ExtractCall ==
    /\ fn.op = "extract"
    /\ fn.calls = 0
    /\ fn' = [fn EXCEPT !.out = ExtractValue(fn.data, fn.path), !.calls = 1]
    /\ UNCHANGED <<objectVars, runVars>>

MatchCall ==
    /\ fn.op = "match"
    /\ fn.calls < 2
    /\ fn' = [fn EXCEPT !.crs = ProcessConditions(@, fn.response),
                        !.calls = @ + 1]
    /\ UNCHANGED <<objectVars, runVars>>

NextPure == ExtractCall \/ MatchCall

SpecPure == InitPure /\ [][NextPure]_vars

(***************************************************************************)
(* Properties.                                                             *)
(***************************************************************************)
\* No dispatch is in progress and `trace` is that of the last dispatch.
DispatchOver == pc \notin {"refresh", "retry"} /\ trace.sent # <<>>

\* The requests of `trace` that went to the target.
TargetSends == {k \in DOMAIN trace.sent : trace.sent[k].url = "url"}

\* The dispatch of `trace` had a token and a first response of status 401.
First401 ==
    /\ token.present
    /\ trace.answers # <<>>
    /\ ~trace.answers[1].raised
    /\ trace.answers[1].response.status_code = 401

\* `second` is `first` resent: the same but for the Authorization header.
Resent(first, second, authorization) ==
    /\ second.method = first.method
    /\ second.url = first.url
    /\ second.data = first.data
    /\ DOMAIN second.headers = DOMAIN first.headers \cup {"Authorization"}
    /\ \A k \in DOMAIN first.headers \ {"Authorization"} :
           second.headers[k] = first.headers[k]
    /\ second.headers["Authorization"] = authorization

\* C1 as claimed: every dispatch with a token whose first response is a 401
\* refreshes the token, resends the request once with the header "Bearer " +
\* access_token and processes the second response.
C1_Original ==
    (DispatchOver /\ First401) =>
        /\ trace.refresh = "ok"
        /\ Len(trace.sent) = 3
        /\ Resent(trace.sent[1], trace.sent[3], Bearer(token.access_token))
        /\ Len(trace.answers) = 2
        /\ ~trace.answers[2].raised
        /\ trace.processed = <<trace.answers[2].response>>

\* C1 (amended): in a dispatch with a token whose first response is a 401 the
\* refresh is attempted; when it succeeds the request is resent exactly once,
\* unchanged but for Authorization = "Bearer " + str(access_token as stored
\* after the refresh), and the answer to the resend, when there is one, is the
\* only response processed, whatever its status; when the refresh raises
\* nothing is resent and nothing processed.  No dispatch sends the target
\* request more than twice.
C1_RetryOnce ==
    /\ Cardinality(TargetSends) <= 2
    /\ (DispatchOver /\ First401) =>
          /\ Len(trace.sent) >= 2
          /\ trace.sent[2].url = "token_endpoint"
          /\ trace.refresh \in {"ok", "raised"}
          /\ trace.refresh = "raised" =>
                Len(trace.sent) = 2 /\ trace.processed = <<>>
          /\ trace.refresh = "ok" =>
                /\ Len(trace.sent) = 3
                /\ Resent(trace.sent[1], trace.sent[3],
                          "Bearer " \o Format(token.access_token))
                /\ Len(trace.answers) = 2
                /\ trace.processed =
                      IF trace.answers[2].raised THEN <<>>
                      ELSE <<trace.answers[2].response>>

\* A dispatch whose first and second responses were both 401, the second one
\* processed, sent with the refreshed token.
C1_Witness ==
    /\ DispatchOver
    /\ First401
    /\ trace.refresh = "ok"
    /\ token.access_token = PyStr("tokA")
    /\ trace.sent[3].headers["Authorization"] = "Bearer tokA"
    /\ trace.processed # <<>>
    /\ trace.processed[1].status_code = 401

\* The number of dispatches of one run(): loops times the number of payloads
\* (one payload, {}, when none is configured) for POST, loops otherwise.
ConfiguredPayloadCount ==
    IF args.payloads.t = "list" THEN Len(args.payloads.v) ELSE 0
PostMethods == {"POST", "post", "Post"}
ExpectedDispatches ==
    IF args.method \in PostMethods
    THEN args.loops * (IF ConfiguredPayloadCount = 0 THEN 1
                       ELSE ConfiguredPayloadCount)
    ELSE args.loops

\* C2: whatever fails in the dispatches, no exception leaves run(), and run()
\* eventually returns having made every dispatch.
C2_RunCompletes ==
    /\ [](pc # "raised")
    /\ <>(pc = "done" /\ Len(dispatched) = ExpectedDispatches)

\* run() returned although both of two dispatches failed: nothing was
\* collected, and the last dispatch ended in a failed refresh.
C2_Witness ==
    /\ pc = "done"
    /\ args.save_output
    /\ Len(dispatched) = 2
    /\ results = <<>>
    /\ trace.refresh = "raised"

\* C3 as claimed: total_requests is loops * P for POST, with P the number of
\* configured payloads (0 when the list is empty or not supplied).
C3_Original ==
    total_requests = IF args.method \in PostMethods
                     THEN args.loops * ConfiguredPayloadCount
                     ELSE args.loops

\* C3 (amended): total_requests is loops * P for POST (in any letter case),
\* with P the length of the payload list in effect, which is the configured
\* list, or the single payload {} when the list is empty or not supplied; it
\* is loops for any other method; and run() never changes it.
C3_TotalRequests ==
    /\ [](total_requests = ExpectedDispatches)
    /\ [][total_requests' = total_requests]_vars

\* A lower-case POST with no payload list after a run of two loops.
C3_Witness ==
    /\ pc = "done"
    /\ args.method = "post"
    /\ args.payloads = PyNone
    /\ args.loops = 2
    /\ total_requests = 2

\* The k-th payload of a run: the payloads in order, over and over.
ExpectedPayload(k) ==
    IF args.method \in PostMethods
    THEN IF ConfiguredPayloadCount = 0 THEN EmptyDict
         ELSE args.payloads.v[((k - 1) % ConfiguredPayloadCount) + 1]
    ELSE EmptyDict

\* C4: run() dispatches the payloads in order, each loop a full pass, L*P
\* dispatches in all (L with no body when the method is not POST), and a
\* dispatch starts only when every earlier one is over and accounted for.
C4_DispatchOrder ==
    /\ [](/\ Len(dispatched) <= ExpectedDispatches
          /\ \A k \in DOMAIN dispatched : dispatched[k] = ExpectedPayload(k)
          /\ \A k \in TargetSends :
                trace.sent[k].data =
                    IF args.method \in PostMethods
                    THEN dispatched[Len(dispatched)] ELSE PyNone
          /\ pc \in {"save", "save_cond", "done"} =>
                Len(dispatched) = ExpectedDispatches)
    /\ [][Len(dispatched') # Len(dispatched) =>
            /\ Len(dispatched') = Len(dispatched) + 1
            /\ pc = "request"
            /\ completed_requests = Len(dispatched)]_vars

\* POST, payloads [{"x":1},{"x":2}], loops 2: four dispatches p1,p2,p1,p2.
C4_Witness ==
    /\ pc = "done"
    /\ args.method = "POST"
    /\ args.loops = 2
    /\ dispatched = <<Payload(1), Payload(2), Payload(1), Payload(2)>>
    /\ total_requests = 4

\* The condition has a non-empty list under `key`.
Constrains(condition, key) ==
    key \in DOMAIN condition /\ Len(condition[key]) > 0

\* `message` occurs in `text`: text is some prefix, then message, then the rest.
Occurs(message, text) ==
    \E i \in 0..Len(text) : \E j \in i..Len(text) :
        SubSeq(text, 1, i) \o message \o SubSeq(text, j + 1, Len(text)) = text

\* A condition matches a response when its status_codes are absent or empty or
\* hold the status, and its messages are absent or empty or one of them occurs
\* in the body.
ShouldMatch(condition, response) ==
    /\ \/ ~Constrains(condition, "status_codes")
       \/ \E k \in DOMAIN condition["status_codes"] :
             condition["status_codes"][k] = response.status_code
    /\ \/ ~Constrains(condition, "messages")
       \/ \E k \in DOMAIN condition["messages"] :
             Occurs(condition["messages"][k], response.text)

\* C5: evaluating a condition against a response appends the body to the
\* condition's matched bodies if and only if the status clause and the message
\* clause both hold, a clause with no list holding for every response.
C5_MatchIff ==
    fn.op = "match" =>
        fn.crs[1].results =
            IF ShouldMatch(fn.crs[1].condition, fn.response)
            THEN [k \in 1..fn.calls |-> fn.response.text]
            ELSE <<>>

\* {status_codes: [200], messages: ["ok"]} evaluated against 200 / "fail": no
\* match.
C5_Witness ==
    /\ fn.op = "match"
    /\ fn.calls = 1
    /\ fn.crs[1].condition = [status_codes |-> <<200>>, messages |-> <<"ok">>]
    /\ fn.response = Response(200, "fail")
    /\ fn.crs[1].results = <<>>

\* The writes to the main output file.
MainFileWrites == {k \in DOMAIN written : written[k].path = args.output_file}

\* C6 as claimed: with save_output false nothing ever writes the file named
\* by output_file.
C6_Original == ~args.save_output => MainFileWrites = {}

\* C6 (amended): with save_output false _save_results never runs; the file
\* named by output_file is written only for a condition that names that same
\* file as its own output_file and has matched at least once.
C6_NoMainWrite ==
    ~args.save_output =>
        /\ pc # "save"
        /\ \A k \in MainFileWrites :
              /\ written[k].by \in DOMAIN condition_results
              /\ LET cr == condition_results[written[k].by]
                 IN /\ "output_file" \in DOMAIN cr.condition
                    /\ cr.condition["output_file"] = args.output_file
                    /\ cr.results # <<>>

\* save_output false, run() over, and a condition wrote the main output file.
C6_Witness ==
    /\ ~args.save_output
    /\ pc = "done"
    /\ results = <<>>
    /\ MainFileWrites # {}
    /\ \E k \in DOMAIN written : written[k].path = "cond.txt"

\* The bodies a write is given: all results for the main file (by = 0), the
\* matched bodies of condition `by` otherwise.
BodiesOf(by) == IF by = 0 THEN results ELSE condition_results[by].results

\* The text of `bodies`, one per line.
RECURSIVE OnePerLine(_, _)
OnePerLine(bodies, k) ==
    IF k = 0 THEN "" ELSE OnePerLine(bodies, k - 1) \o bodies[k] \o "\n"

\* C7: a write that succeeds leaves, when append_logs is true and the file
\* existed, the earlier text followed by the new bodies one per line in
\* order; otherwise exactly the new bodies.
C7_AppendOrTruncate ==
    [][Len(written') > Len(written) =>
        LET w == written'[Len(written')]
            text == OnePerLine(BodiesOf(w.by), Len(BodiesOf(w.by)))
        IN w.kind = "ok" =>
              /\ fs'[w.path].exists
              /\ fs'[w.path].content =
                    IF args.append_logs /\ fs[w.path].exists
                    THEN fs[w.path].content \o text
                    ELSE text
              /\ \A q \in Paths \ {w.path} : fs'[q] = fs[q]]_vars

\* Two bodies appended after the earlier text of output.txt, and a file
\* written afresh.
C7_Witness ==
    /\ args.append_logs
    /\ pc = "done"
    /\ fs["output.txt"].content = "old\nok\nfail\n"
    /\ fs["cond.txt"].content = "ok\n"

IsPrefix(s, t) == Len(s) <= Len(t) /\ SubSeq(t, 1, Len(s)) = s

\* The step processes a response: a first send or a resend that leaves a
\* processed response in the trace.
Processes == pc \in {"request", "retry"} /\ trace'.processed # <<>>

\* C8: each condition's matched bodies only ever grow at the end, by exactly
\* the body of each processed response that matches, also when that body is
\* there already.
C8_AppendOnly ==
    [][\A i \in DOMAIN condition_results :
          /\ DOMAIN condition_results' = DOMAIN condition_results
          /\ condition_results'[i].condition = condition_results[i].condition
          /\ IsPrefix(condition_results[i].results,
                      condition_results'[i].results)
          /\ condition_results'[i].results =
                IF Processes /\ ShouldMatch(condition_results[i].condition,
                                            trace'.processed[1])
                THEN Append(condition_results[i].results,
                            trace'.processed[1].text)
                ELSE condition_results[i].results]_vars

\* The same matching response processed twice: its body is there twice.
C8_Witness ==
    /\ Len(condition_results) = 1
    /\ condition_results[1].results = <<"ok", "ok">>
    /\ results = <<"ok", "ok">>

\* Following the keys from the document: the value reached, when every value
\* on the way is a mapping that has the next key.
Walk[k \in 0..MaxPathLen + 1] ==
    IF k = 0 THEN [found |-> TRUE, value |-> fn.data]
    ELSE IF k > Len(fn.path) THEN [found |-> FALSE, value |-> PyNone]
    ELSE LET before == Walk[k - 1]
         IN IF /\ before.found
               /\ before.value.t = "dict"
               /\ fn.path[k] \in DOMAIN before.value.v
            THEN [found |-> TRUE, value |-> before.value.v[fn.path[k]]]
            ELSE [found |-> FALSE, value |-> PyNone]

\* C9: extraction returns the value reached by following the keys when every
\* intermediate value is a mapping with the next key and the value reached is
\* a string; in every other case it returns no value.
C9_Extract ==
    (fn.op = "extract" /\ fn.calls = 1) =>
        LET end == Walk[Len(fn.path)]
        IN fn.out = IF end.found /\ end.value.t = "str" THEN end.value
                    ELSE PyNone

\* {"a": {"b": "tok123"}} with the path a, b gives "tok123".
C9_Witness ==
    /\ fn.op = "extract"
    /\ fn.calls = 1
    /\ fn.data = PyDict([a |-> PyDict([b |-> PyStr("tok123")])])
    /\ fn.path = <<"a", "b">>
    /\ fn.out = PyStr("tok123")

\* The condition is due to be written: it names a file and has matched.
Due(i) ==
    /\ "output_file" \in DOMAIN condition_results[i].condition
    /\ Len(condition_results[i].condition["output_file"]) > 0
    /\ Len(condition_results[i].results) > 0

\* C10: a failed write stops nothing: no exception leaves run(), and when
\* run() has returned every file that was due (the main file when save_output
\* is set, the file of every condition that names one and has matched) has
\* had its write, in order, whatever happened to the others.
C10_WritesIndependent ==
    /\ pc # "raised"
    /\ pc = "done" =>
          /\ args.save_output => \E k \in DOMAIN written : written[k].by = 0
          /\ \A i \in DOMAIN condition_results :
                Due(i) => \E k \in DOMAIN written :
                             /\ written[k].by = i
                             /\ written[k].path =
                                   condition_results[i].condition["output_file"]

\* run() returned; the first write failed at open, the second failed midway,
\* the third succeeded.
C10_Witness ==
    /\ pc = "done"
    /\ Len(written) = 3
    /\ written[1].kind = "open_error"
    /\ written[2].kind = "write_error"
    /\ written[3].kind = "ok"
    /\ fs[written[3].path].exists

\* C11: a condition's output file is written on behalf of that condition only
\* when the condition has matched at least one processed response: no write
\* is ever attempted for a condition without matches.
C11_WrittenOnlyOnMatch ==
    /\ \A k \in DOMAIN written :
          written[k].by >= 1 =>
             /\ condition_results[written[k].by].results # <<>>
             /\ written[k].path =
                   condition_results[written[k].by].condition["output_file"]
    /\ (\A i \in DOMAIN condition_results :
           condition_results[i].results = <<>>) =>
          \A q \in Paths :
             \/ args.save_output /\ q = args.output_file
             \/ fs[q] \in {Absent, Present("old\n")}

\* run() returned: the second condition matched and had its file written,
\* the first matched nothing and cond.txt, which it names, was left absent.
C11_Witness ==
    /\ pc = "done"
    /\ Len(condition_results) = 2
    /\ "output_file" \in DOMAIN condition_results[1].condition
    /\ condition_results[1].condition["output_file"] = "cond.txt"
    /\ condition_results[1].results = <<>>
    /\ fs["cond.txt"] = Absent
    /\ condition_results[2].results # <<>>
    /\ \E k \in DOMAIN written : written[k].by = 2 /\ written[k].kind = "ok"

\* The step is a call of refresh_access_token.
Refreshing == pc = "refresh" /\ Len(trace'.token_answers) = 1

\* The refresh fails: the transport fails, the status is not 200, or the
\* body of the 200 is not JSON.
RefreshFails(answer) ==
    \/ answer.raised
    \/ answer.response.status_code # 200
    \/ ~answer.response.json_valid

\* The value at `path` in `doc`, None when the path leads nowhere.
RECURSIVE Reach(_, _)
Reach(doc, path) ==
    IF path = <<>> THEN doc
    ELSE IF doc.t = "dict" /\ Head(path) \in DOMAIN doc.v
         THEN Reach(doc.v[Head(path)], Tail(path))
         ELSE PyNone

\* C12: a refresh that fails (transport failure, status other than 200, or a
\* 200 whose body is not JSON) raises and leaves access_token and
\* refresh_token as they were.
C12_FailedRefresh ==
    [][(Refreshing /\ RefreshFails(trace'.token_answers[1])) =>
          /\ trace'.refresh = "raised"
          /\ trace'.returned = <<>>
          /\ token'.access_token = token.access_token
          /\ token'.refresh_token = token.refresh_token]_vars

\* A refresh answered by a 500 failed on a token that held the access_token
\* "tokA": it still holds it.
C12_Witness ==
    /\ token.present
    /\ token.access_token = PyStr("tokA")
    /\ trace.refresh = "raised"
    /\ ~trace.token_answers[1].raised
    /\ trace.token_answers[1].response.status_code = 500

\* C13: refresh_token changes only in a refresh answered by a 200 whose
\* document holds a non-empty string at refresh_token_path, and becomes that
\* string; every other refresh and every other step leave it; the refresh
\* request carries the refresh_token stored when it is sent.
C13_RefreshToken ==
    [][token.present =>
          IF Refreshing
          THEN LET answer == trace'.token_answers[1]
                   sent == trace'.sent[Len(trace'.sent)]
                   value == IF RefreshFails(answer) THEN PyNone
                            ELSE Reach(answer.response.json,
                                       token.refresh_token_path)
               IN /\ sent.url = "token_endpoint"
                  /\ sent.data.v.refresh_token = token.refresh_token
                  /\ token'.refresh_token =
                        IF value.t = "str" /\ value.v # ""
                        THEN value ELSE token.refresh_token
          ELSE token'.refresh_token = token.refresh_token]_vars

\* The refresh_token was replaced by "refB" in an earlier refresh, was sent in
\* the last refresh request, and was left by the answer to that, a 200 whose
\* refresh_token is a number.
C13_Witness ==
    /\ token.present
    /\ token.refresh_token = PyStr("refB")
    /\ Len(trace.sent) >= 2
    /\ trace.sent[2].data.v.refresh_token = PyStr("refB")
    /\ trace.refresh = "ok"
    /\ trace.token_answers[1].response.json =
          PyDict([refresh_token |-> PyInt(7)])

\* C14: a refresh answered by a 200 with a JSON body stores the string at
\* access_token_path as access_token, and None when there is no string
\* there, whatever access_token was; it returns what it stored.
C14_AccessTokenReplaced ==
    [][(Refreshing /\ ~RefreshFails(trace'.token_answers[1])) =>
          LET value == Reach(trace'.token_answers[1].response.json,
                             token.access_token_path)
          IN /\ trace'.refresh = "ok"
             /\ token'.access_token =
                   IF value.t = "str" THEN value ELSE PyNone
             /\ trace'.returned = <<token'.access_token>>]_vars

\* The dispatch was first sent with "Bearer tokA"; the refresh, answered by a
\* 200, left no access_token.
C14_Witness ==
    /\ pc = "retry"
    /\ token.present
    /\ ~Truthy(token.access_token)
    /\ "Authorization" \in DOMAIN trace.sent[1].headers
    /\ trace.sent[1].headers["Authorization"] = "Bearer tokA"
    /\ trace.token_answers[1].response.status_code = 200

\* The step is the first send of a dispatch.
Dispatching == pc = "request" /\ Len(dispatched') = Len(dispatched) + 1

\* The requests sent in the step.
NewSends ==
    IF Dispatching THEN {trace'.sent[1]}
    ELSE {trace'.sent[k] : k \in DOMAIN trace'.sent \ DOMAIN trace.sent}

\* C15: until a refresh has succeeded the access_token is the empty string,
\* the headers are those of the caller and every request sent, the refresh
\* request included, carries them; when access_token is not empty the first
\* send of a dispatch carries Authorization = "Bearer " + access_token,
\* whatever the caller supplied, and the caller's other headers.
C15_Authorization ==
    [][/\ (token.present /\ ~history.refreshed) =>
             token.access_token = PyStr("")
       /\ (~token.present \/ ~history.refreshed) =>
             /\ headers = args.headers
             /\ \A r \in NewSends : r.headers = args.headers
       /\ (Dispatching /\ token.present /\ Truthy(token.access_token)) =>
             LET h == trace'.sent[1].headers
             IN /\ DOMAIN h = DOMAIN args.headers \cup {"Authorization"}
                /\ h["Authorization"] = "Bearer " \o token.access_token.v
                /\ \A k \in DOMAIN args.headers \ {"Authorization"} :
                      h[k] = args.headers[k]
                /\ headers' = h]_vars

\* The caller supplied "Basic abc"; the second dispatch was sent with the
\* access_token that the refresh of the first one stored.
C15_Witness ==
    /\ args.headers = AuthorizedHeaders
    /\ Len(dispatched) = 2
    /\ trace.sent[1].headers["Authorization"] = "Bearer tokA"
    /\ token.access_token = PyStr("tokA")

\* The dispatches of this run() that are over.
DispatchesOver ==
    Len(dispatched) - (IF pc \in {"refresh", "retry"} THEN 1 ELSE 0)

\* The step is a send of the target request that the transport fails.
SendFails ==
    /\ pc \in {"request", "retry"}
    /\ Len(trace'.answers) = (IF pc = "request" THEN 1 ELSE 2)
    /\ trace'.answers[Len(trace'.answers)].raised

\* C16: a send that the transport fails ends the dispatch: nothing more is
\* sent, results and the conditions' matches are as before, and
\* completed_requests is one more.  In a run() on a new object
\* completed_requests counts the dispatches that are over, does not exceed
\* total_requests, and is total_requests when run() has returned.
C16_FailedSend ==
    /\ [](/\ completed_requests = DispatchesOver
          /\ completed_requests <= total_requests
          /\ pc = "done" => completed_requests = total_requests)
    /\ [][SendFails =>
             /\ pc' \notin {"refresh", "retry"}
             /\ Len(trace'.sent) = (IF pc = "request" THEN 1 ELSE 3)
             /\ trace'.processed = <<>>
             /\ results' = results
             /\ condition_results' = condition_results
             /\ completed_requests' = completed_requests + 1]_vars

\* run() returned: two dispatches, the transport failed both, nothing was
\* collected and completed_requests is total_requests.
C16_Witness ==
    /\ pc = "done"
    /\ args.save_output
    /\ total_requests = 2
    /\ completed_requests = 2
    /\ results = <<>>
    /\ trace.answers = <<TransportError>>
    /\ fs[args.output_file].content = ""

\* The refresh requests of the dispatch of `trace`.
RefreshSends == {k \in DOMAIN trace.sent : trace.sent[k].url = "token_endpoint"}

\* C17: a dispatch calls the refresh at most once, as its second request,
\* and only with a token and a first response of status 401: a 401 without a
\* token and any other first response are processed and end the dispatch, and
\* so does the response to the resend, a 401 included.  A run() calls the
\* refresh at most once per dispatch, total_requests times at most.
C17_RefreshOnlyOn401 ==
    /\ RefreshSends \subseteq {2}
    /\ Len(trace.token_answers) = Cardinality(RefreshSends)
    /\ RefreshSends # {} => First401
    /\ pc \in {"refresh", "retry"} => First401
    /\ history.refresh_calls <= Len(dispatched)
    /\ history.refresh_calls <= total_requests
    /\ (DispatchOver /\ ~trace.answers[1].raised /\ ~First401) =>
          /\ Len(trace.sent) = 1
          /\ trace.processed = <<trace.answers[1].response>>
    /\ (DispatchOver /\ Len(trace.answers) = 2 /\ ~trace.answers[2].raised) =>
          /\ Len(trace.sent) = 3
          /\ trace.processed = <<trace.answers[2].response>>

\* A dispatch with a token: the first response was a 401, the token was
\* refreshed, the resend was answered by a 401 again, which was processed
\* with no further refresh.
C17_Witness ==
    /\ DispatchOver
    /\ First401
    /\ Len(trace.answers) = 2
    /\ ~trace.answers[2].raised
    /\ trace.answers[2].response.status_code = 401
    /\ Len(trace.sent) = 3
    /\ history.refresh_calls = 1
    /\ Len(dispatched) = 2

\* C18: the first 401 of a dispatch with a token is not processed on
\* arrival, and when the refresh then fails the dispatch ends: nothing is
\* resent, results and the conditions' matches are as they were before the
\* dispatch.
C18_Dropped401 ==
    [][/\ pc' = "refresh" =>
             /\ results' = results
             /\ condition_results' = condition_results
       /\ (Refreshing /\ RefreshFails(trace'.token_answers[1])) =>
             /\ pc' \notin {"refresh", "retry"}
             /\ Len(trace'.sent) = 2
             /\ Len(trace'.answers) = 1
             /\ trace'.processed = <<>>
             /\ results' = results
             /\ condition_results' = condition_results
             /\ completed_requests' = completed_requests + 1]_vars

\* run() returned with save_output set and a condition on the status 401:
\* the only dispatch got a 401, the refresh failed, and neither results nor
\* the condition holds the 401's body.
C18_Witness ==
    /\ pc = "done"
    /\ args.save_output
    /\ Len(dispatched) = 1
    /\ Len(condition_results) = 1
    /\ "status_codes" \in DOMAIN condition_results[1].condition
    /\ condition_results[1].condition["status_codes"] = <<401>>
    /\ First401
    /\ trace.refresh = "raised"
    /\ results = <<>>
    /\ condition_results[1].results = <<>>

\* `body` is a line of `content`.
HasLine(content, body) ==
    \E i \in 1..Len(content) :
        /\ i = 1 \/ SubSeq(content, i - 1, i - 1) = "\n"
        /\ i + Len(body) <= Len(content)
        /\ SubSeq(content, i, i + Len(body)) = body \o "\n"

\* C19 as claimed: when run() has returned and no write has failed, the file
\* named by each condition that matched holds every body the condition
\* matched.
C19_Original ==
    (pc = "done" /\ \A k \in DOMAIN written : written[k].kind = "ok") =>
        \A i \in DOMAIN condition_results :
            Due(i) =>
                \A j \in DOMAIN condition_results[i].results :
                    HasLine(fs[condition_results[i].condition["output_file"]]
                                .content,
                            condition_results[i].results[j])

\* C20 as claimed: completed_requests never exceeds total_requests, however
\* many times run() has been called.
C20_Original == completed_requests <= total_requests

====
